---- MODULE Spec2Model ----
(***************************************************************************)
(* Model of scripts/airplane-sim.py: the mini airplane simulator that      *)
(* couples a fixed-timestep physics loop (main thread, sim_loop) with the  *)
(* WebSocket callbacks on_open / on_message / on_close (receive thread).   *)
(*                                                                         *)
(* Numbers.  The script computes in floating point; the model computes on  *)
(* an integer grid chosen so that the thrust and the Euler increment are   *)
(* exact; the drag is the exact value rounded to the nearest grid unit and *)
(* the pressures are the exact values floored to the grid:                 *)
(*   thrust, drag     in 1/ServoMax N            (1/180 N)                 *)
(*   airspeed_ms      in 1/SpeedScale m/s        (1/3240000 m/s)           *)
(*   qc, pitot        in Pa * 100                (1/100 Pa)                *)
(*   dt               as 1/StepsPerSecond s      (0.05 s)                  *)
(***************************************************************************)
EXTENDS Integers, Sequences, FiniteSets, TLC

\* ---------------------------------------------------------------- bounds
\* Ticks the clock loop may execute while connected.
MaxTick == 20
\* Events the network may raise in one run: an inbound frame, the loss of the
\* connection.
MaxEvents == 1
\* The physics bench: start airspeeds 0..MaxBenchSpeed m/s, MaxBenchSteps steps.
MaxBenchSpeed == 58
MaxBenchSteps == 40
\* The ws.send calls the record of sends keeps: the latest LogWindow of them.
LogWindow == 6
\* The thrust bench: throttle positions from MaxOutOfRange below 0 to
\* MaxOutOfRange above ServoMax.
MaxOutOfRange == 20
\* The climb bench: physics steps at full throttle, starting at rest.
MaxClimbSteps == 2000
\* The loop bench: ticks the clock loop may execute.
MaxLoopTick == 60

\* ------------------------------------------------- aircraft parameters
MASS == 900
CdATenths == 12
MAX_THRUST == 2500
IDLE_THRUST == 50
RhoMilli == 1225
STATIC_PRESSURE == 101325
ServoMax == 180
StepsPerSecond == 20
DisplayEvery == 20
ConnectPolls == 50

\* Grid of airspeed_ms: one unit of (thrust - drag) moves airspeed by one unit
\* in one step, since accel * dt = (thrust - drag) / MASS / StepsPerSecond.
SpeedScale == ServoMax * MASS * StepsPerSecond
Max(a, b) == IF a >= b THEN a ELSE b
Min(a, b) == IF a <= b THEN a ELSE b

\* Python's round(n / d) for d > 0: nearest integer, ties to even.
RoundHalfEven(n, d) ==
    LET q == n \div d
        r == n % d
    IN  IF 2 * r > d THEN q + 1
        ELSE IF 2 * r < d THEN q
        ELSE IF q % 2 = 0 THEN q ELSE q + 1

\* Products and quotients beyond 2^31, on numbers written in base Base with
\* the lowest digit first.
Base == 10000
Abs(n) == IF n < 0 THEN -n ELSE n

\* The three digits of 0 <= n < 2^31.
Limbs(n) == << n % Base, (n \div Base) % Base, n \div (Base * Base) >>

\* The digits of the number whose i-th digit position holds c[i] (any natural
\* number), plus carry at the lowest position.
RECURSIVE Carry(_, _)
Carry(c, carry) ==
    IF c = << >>
    THEN IF carry = 0 THEN << >>
         ELSE << carry % Base >> \o Carry(<< >>, carry \div Base)
    ELSE LET t == Head(c) + carry
         IN  << t % Base >> \o Carry(Tail(c), t \div Base)

\* a * a for a three-digit a.
Square(a) ==
    Carry(<< a[1] * a[1],
             2 * a[1] * a[2],
             2 * a[1] * a[3] + a[2] * a[2],
             2 * a[2] * a[3],
             a[3] * a[3] >>, 0)

\* x * k for a small k.
Times(x, k) == Carry([i \in 1..Len(x) |-> x[i] * k], 0)

\* x divided by a small d: the digits of the quotient and the remainder.
RECURSIVE DivRem(_, _)
DivRem(x, d) ==
    IF x = << >> THEN [q |-> << >>, r |-> 0]
    ELSE LET hi == DivRem(Tail(x), d)
             cur == hi.r * Base + Head(x)
         IN  [q |-> << cur \div d >> \o hi.q, r |-> cur % d]

\* x \div (d1 * d2 * d3).
Quot(x, d1, d2, d3) == DivRem(DivRem(DivRem(x, d1).q, d2).q, d3).q

\* The number a digit sequence stands for (below 2^31).
RECURSIVE ToInt(_)
ToInt(x) == IF x = << >> THEN 0 ELSE Head(x) + Base * ToInt(Tail(x))

\* compute_dynamic_pressure: qc = 0.5 * RHO * v * v, in Pa * 100, floored.
\* With v in 1/SpeedScale m/s, 0.5 * 1.225 * 100 / SpeedScale^2
\* = 49 / (2^14 * 3^8 * 5^7) = 49 / (16384 * 6561 * 78125).
compute_dynamic_pressure(v) ==
    ToInt(Quot(Times(Square(Limbs(Abs(v))), 49), 16384, 6561, 78125))

\* The thrust of an engine without idle thrust: zero at zero throttle.
compute_thrust_no_idle(servo_deg) ==
    Max(0, Min(servo_deg, ServoMax)) * MAX_THRUST

\* The thrust without the clamp of the servo position.
compute_thrust_unclamped(servo_deg) ==
    ServoMax * IDLE_THRUST + servo_deg * (MAX_THRUST - IDLE_THRUST)

\* compute_thrust: IDLE_THRUST + clamp(servo_deg, 0, 180) / 180 * (MAX - IDLE),
\* in 1/180 N (the whole expression multiplied by ServoMax).
compute_thrust(servo_deg) ==
    ServoMax * IDLE_THRUST
        + Max(0, Min(servo_deg, ServoMax)) * (MAX_THRUST - IDLE_THRUST)

\* The drag without the factor CD_A: 0.5 * RHO * v * |v|, in 1/180 N
\* (180 * 0.5 * 1.225 / SpeedScale^2 = 49 / (8192 * 7290 * 78125)).
compute_drag_no_area(v) ==
    LET twice == ToInt(Quot(Times(Square(Limbs(Abs(v))), 98), 8192, 7290, 78125))
        d == (twice + 1) \div 2
    IN  IF v < 0 THEN -d ELSE d

\* compute_drag: 0.5 * RHO * v * |v| * CD_A, in 1/180 N, to the nearest unit;
\* v * |v| keeps the sign.  With v in 1/SpeedScale m/s,
\* 180 * 0.5 * 1.225 * 1.2 / SpeedScale^2 = 49 / (2^13 * 3^5 * 5^9)
\* = 49 / (8192 * 6075 * 78125); twice is the floor of twice the drag.
compute_drag(v) ==
    LET twice == ToInt(Quot(Times(Square(Limbs(Abs(v))), 98), 8192, 6075, 78125))
        d == (twice + 1) \div 2
    IN  IF v < 0 THEN -d ELSE d

\* accel * dt = (thrust - drag) / MASS * dt on the airspeed grid: a force of
\* 1/ServoMax N moves the airspeed by SpeedScale / (ServoMax * MASS *
\* StepsPerSecond) = 1 unit in one step.
AccelDt(thrust, drag) ==
    (thrust - drag) * (SpeedScale \div (ServoMax * MASS * StepsPerSecond))

\* The step without its range checks: the thrust taken from the raw angle and
\* the result stored unclamped.
physics_step_unchecked(v, servo_deg) ==
    v + AccelDt(ServoMax * IDLE_THRUST + servo_deg * (MAX_THRUST - IDLE_THRUST),
                compute_drag(v))

\* physics_step: one Euler step of airspeed_ms under the given throttle,
\* clamped at zero.
physics_step(v, servo_deg) ==
    LET thrust == compute_thrust(servo_deg)
        drag == compute_drag(v)
        next == v + AccelDt(thrust, drag)
    IN  IF next < 0 THEN 0 ELSE next

\* ------------------------------------------------------ inbound frames
\* A frame is the text handed to on_message.  json tells whether json.loads
\* accepts it, obj whether the decoded value is an object (has .get), type is
\* msg.get("type"), parts the items of msg["parts"] in iteration order, serial
\* msg.get("serial", []).  A part is the info object of one part id: dict tells
\* whether it is an object, has whether it carries an "angle" key, kind what
\* the value under that key is (one of Kinds, below).
\* Numeric servo angles are whole degrees, not necessarily inside 0..180.
Part(d, t, h, a) ==
    [dict |-> d, type |-> t, has |-> h, angle |-> a, kind |-> "number"]
Servo(a) == Part(TRUE, "wokwi-servo", TRUE, a)
\* {"type": "wokwi-servo", "angle": null}
ServoNull == [Servo(0) EXCEPT !.kind = "none"]
\* {"type": "wokwi-servo", "angle": 1000...0} (400 zeros), or Infinity: a
\* number above every float
ServoHuge == [Servo(0) EXCEPT !.kind = "huge"]
\* {"type": "wokwi-servo", "angle": NaN}; -Infinity behaves the same way
ServoNaN == [Servo(0) EXCEPT !.kind = "nan"]
ServoNoAngle == Part(TRUE, "wokwi-servo", FALSE, 0)
Led(a) == Part(TRUE, "wokwi-led", TRUE, a)
Junk == Part(FALSE, "", FALSE, 0)

\* caught tells, of a text json.loads rejects, whether the exception is a
\* json.JSONDecodeError (the only one line 95 catches); fields tells whether
\* the fields the branch of this type reads have the shape it relies on:
\* "parts" a mapping for a state frame, a list of objects with "id" and "type"
\* for a ready frame, "data" a string for a serial frame.
Frame(j, o, t, ps, sl) ==
    [json |-> j, obj |-> o, type |-> t, parts |-> ps, serial |-> sl,
     data |-> << >>, caught |-> TRUE, fields |-> TRUE]
State(ps, sl) == Frame(TRUE, TRUE, "state", ps, sl)
Other(t) == Frame(TRUE, TRUE, t, << >>, << >>)
\* A serial frame: data is the line, as the sequence of its characters.
SerialLine(d) == [Other("serial") EXCEPT !.data = d]

NoFrame == Frame(FALSE, FALSE, "-", << >>, << >>)
Malformed == Frame(FALSE, FALSE, "", << >>, << >>)
NonObject == Frame(TRUE, FALSE, "", << >>, << >>)
\* "[" 100000 times: json.loads raises RecursionError, no JSONDecodeError
\* (as bytes that are no UTF-8 raise UnicodeDecodeError, and an integer
\* literal of 5000 digits ValueError).
TooDeep == [Malformed EXCEPT !.caught = FALSE]
\* {"type": "state", "parts": [], "serial": [...]}: a list has no .items
StateBadParts(sl) == [State(<< >>, sl) EXCEPT !.fields = FALSE]
\* {"type": "ready", "parts": [{"id": "servo1"}]}: p['type'] is missing
ReadyBadParts == [Other("ready") EXCEPT !.fields = FALSE]
\* {"type": "serial", "data": 5}: an int has no .startswith
SerialBadData == [Other("serial") EXCEPT !.fields = FALSE]

SerialLines == << "AT:ias=0" >>

StateFrames ==
    { State(<< >>, << >>),
      State(<< Servo(90), Led(45) >>, SerialLines),
      State(<< Servo(-10), Servo(200) >>, << >>),
      State(<< ServoNoAngle >>, << >>),
      State(<< ServoNull >>, << >>),
      State(<< ServoHuge >>, << >>),
      State(<< ServoNaN >>, << >>),
      StateBadParts(SerialLines),
      State(<< Led(45) >>, SerialLines),
      State(<< Junk, Servo(90) >>, SerialLines) }

QuietFrames ==
    { Malformed, NonObject, TooDeep, ReadyBadParts, SerialBadData,
      Other("ready"), Other("error"), Other("telemetry"),
      SerialLine(<< "A", "T", ":", "7" >>), SerialLine(<< "o", "k" >>) }

Frames == StateFrames \cup QuietFrames

\* ---------------------------------------------------------------- state
VARIABLES
    airspeed_ms,        \* global: m/s * SpeedScale
    throttle_angle,     \* global: servo degrees
    throttle_kind,      \* global: what throttle_angle holds, one of Kinds
    running,            \* global
    ws_connected,       \* global
    last_serial_lines,  \* global
    greeted,            \* "Connected to SparkBench" was printed (a ready frame)
    pc,                 \* main thread: where main / sim_loop stands
    polls,              \* main: iterations of the connection wait done
    tick,               \* sim_loop: tick
    qc,                 \* sim_loop: qc
    pitot_pressure,     \* sim_loop: pitot_pressure
    thrust,             \* sim_loop: thrust (display block)
    display,            \* the status lines printed, oldest first
    sock,               \* the WebSocket: connecting, open, closing, closed
    wsPc,               \* receive thread: where run_forever stands
    inflight,           \* receive thread: the frame read and being handled
    partIdx,            \* on_message: position of its loop over the parts
    events,             \* network events so far (frames read, connection lost)
    errors,             \* exceptions that escaped on_message
    outbox              \* the latest ws.send calls of sim_loop, oldest first

vars == << airspeed_ms, throttle_angle, throttle_kind, running, ws_connected,
           last_serial_lines, greeted, pc, polls, tick, qc, pitot_pressure, thrust,
           display, sock, wsPc, inflight, partIdx, events, errors, outbox >>

globals == << airspeed_ms, throttle_angle, throttle_kind, running, ws_connected,
              last_serial_lines >>
mainLocals == << pc, polls, tick, qc, pitot_pressure, thrust, display,
                 outbox >>
wsLocals == << wsPc, inflight, partIdx, errors, greeted >>

\* What info.get("angle", 0) of line 111 can leave in throttle_angle: a number
\* of degrees (the integer throttle_angle), a value that is no number (None, a
\* string), an integer no float holds or +Infinity, NaN or -Infinity.
Kinds == {"number", "none", "huge", "nan"}

\* compute_thrust, line 69: an integer that max(0, min(throttle_angle, 180))
\* treats as it treats the stored value.  min(10^400, 180) is 180;
\* min(nan, 180) is nan and max(0, nan) is 0, as max(0, -inf) is.
Degrees ==
    IF throttle_kind = "huge" THEN ServoMax + 1
    ELSE IF throttle_kind = "nan" THEN 0 - 1
    ELSE throttle_angle

\* Lines 37-45, and main up to the start of the receive thread.
Init ==
    /\ airspeed_ms = 0
    /\ throttle_angle = 0
    /\ throttle_kind = "number"
    /\ running = TRUE
    /\ ws_connected = FALSE
    /\ last_serial_lines = << >>
    /\ greeted = FALSE
    /\ pc = "poll"
    /\ polls = 0
    /\ tick = 0
    /\ qc = 0
    /\ pitot_pressure = 0
    /\ thrust = 0
    /\ display = << >>
    /\ sock = "connecting"
    /\ wsPc = "connect"
    /\ inflight = NoFrame
    /\ partIdx = 1
    /\ events = 0
    /\ errors = 0
    /\ outbox = << >>

\* The process is alive until main returns, exits or dies of an exception;
\* the receive thread is a daemon thread and ends with it.
Alive == pc \notin {"done", "exit1", "crashed"}

WaitPcs == {"poll", "poll_sleep", "startup"}
LoopPcs == {"sleep", "check", "skip", "physics", "send_pitot", "send_static",
            "send_get", "display", "display_print"}

\* ------------------------------------------------------- receive thread
\* ws.run_forever (the websocket library): connect, on_open, then read a frame
\* and hand it to on_message until the socket is no longer open, then
\* on_close.  A failed connect goes to on_error (a print) and on_close.
Connect ==
    /\ Alive /\ wsPc = "connect"
    /\ \/ sock' = "open" /\ wsPc' = "opened"
       \/ sock' = "closed" /\ wsPc' = "teardown"
    /\ UNCHANGED << globals, mainLocals, inflight, partIdx, events, errors,
                    greeted >>

\* The peer or the network ends the connection.
PeerClose ==
    /\ Alive /\ sock = "open" /\ events < MaxEvents
    /\ sock' = "closed"
    /\ events' = events + 1
    /\ UNCHANGED << globals, mainLocals, wsLocals >>

\* on_open without its global declaration: the flag it sets is a local.
on_open_local_flag ==
    /\ Alive /\ wsPc = "opened"
    /\ wsPc' = "recv"
    /\ UNCHANGED << globals, mainLocals, sock, inflight, partIdx, events, errors,
                    greeted >>

on_open ==
    /\ Alive /\ wsPc = "opened"
    /\ ws_connected' = TRUE
    /\ wsPc' = "recv"
    /\ UNCHANGED << airspeed_ms, throttle_angle, throttle_kind, running, last_serial_lines,
                    mainLocals, sock, inflight, partIdx, events, errors,
                    greeted >>

\* The read loop takes one frame off the open socket.
Recv ==
    /\ Alive /\ wsPc = "recv" /\ sock = "open" /\ events < MaxEvents
    /\ \E f \in Frames : inflight' = f
    /\ partIdx' = 1
    /\ events' = events + 1
    /\ wsPc' = "dispatch"
    /\ UNCHANGED << globals, mainLocals, sock, errors, greeted >>

\* The read loop finds the socket closed (by the peer, or by ws.close()).
RecvClosed ==
    /\ Alive /\ wsPc = "recv" /\ sock # "open"
    /\ wsPc' = "teardown"
    /\ UNCHANGED << globals, mainLocals, sock, inflight, partIdx, events,
                    errors, greeted >>

\* on_message, lines 93-96: json.loads raises json.JSONDecodeError, which is
\* caught, and the handler returns.
DecodeFails(msg) == ~msg.json /\ msg.caught

\* on_message, line 94: json.loads raises an exception line 95 does not
\* catch (RecursionError, UnicodeDecodeError, ValueError); it leaves the
\* handler.
DecodeRaises(msg) == ~msg.json /\ ~msg.caught

\* The part handled without the test of its type: any angle is taken.
PartThrottleAnyType(info, old) ==
    IF info.has THEN info.angle ELSE old

\* on_message, lines 110-111: the throttle after one part of a state snapshot.
PartThrottle(info, old) ==
    IF info.type = "wokwi-servo"
    THEN (IF info.has THEN info.angle ELSE 0)
    ELSE old

\* on_message, lines 110-111: info.get("angle", 0) is stored as it comes; the
\* throttle is a number afterwards unless the part carried another value.
PartKind(info, old) ==
    IF info.type = "wokwi-servo"
    THEN (IF info.has THEN info.kind ELSE "number")
    ELSE old

\* The handler returns (or an exception ends it) and the read loop goes on.
Return(raised) ==
    /\ wsPc' = "recv" /\ inflight' = NoFrame /\ partIdx' = 1
    /\ errors' = IF raised THEN errors + 1 ELSE errors

\* line.startswith("AT:")
StartsWithAT(line) ==
    Len(line) >= 3 /\ SubSeq(line, 1, 3) = << "A", "T", ":" >>

\* A ready branch that also resets the throttle for the new session.
OnQuietFrameResets(msg) ==
    /\ greeted' = (greeted \/ msg.type = "ready")
    /\ throttle_angle' = IF msg.type = "ready" THEN 0 ELSE throttle_angle
    /\ throttle_kind' = IF msg.type = "ready" THEN "number" ELSE throttle_kind
    /\ Return(msg.type \in {"ready", "serial"} /\ ~msg.fields)
    /\ UNCHANGED last_serial_lines

\* on_message, lines 98-104 and 114-121: a ready frame and an error frame are
\* printed, a serial line is tested for its "AT:" prefix and dropped either
\* way, a frame of any other type matches no branch.  The ready branch
\* prints its greeting and then p['id'], p['type'] of every part, which raise
\* KeyError or TypeError on a part of another shape; the serial branch calls
\* line.startswith, which raises AttributeError when data is no string.
OnQuietFrame(msg) ==
    /\ greeted' = (greeted \/ msg.type = "ready")
    /\ IF msg.type \in {"ready", "serial"} /\ ~msg.fields
       THEN Return(TRUE)
       ELSE IF msg.type = "serial" /\ StartsWithAT(msg.data)
       THEN Return(FALSE)
       ELSE Return(FALSE)
    /\ UNCHANGED << throttle_angle, throttle_kind, last_serial_lines >>

\* on_message, one step of it: a frame that is no state snapshot is handled in
\* one step; a state snapshot takes one step per part and a last one for
\* last_serial_lines.  An exception (json.loads raises another error than
\* JSONDecodeError, msg or info has no .get, parts has no .items) ends the
\* handler where it stands; the library catches it and calls on_error (a
\* print).
on_message ==
    /\ Alive /\ wsPc = "dispatch"
    /\ LET msg == inflight IN
       IF DecodeFails(msg)
       THEN /\ Return(FALSE)
            /\ UNCHANGED << throttle_angle, throttle_kind, last_serial_lines, greeted >>
       ELSE IF DecodeRaises(msg)
       THEN /\ Return(TRUE)
            /\ UNCHANGED << throttle_angle, throttle_kind, last_serial_lines, greeted >>
       ELSE IF ~msg.obj
       THEN \* msg.get raises AttributeError
            /\ Return(TRUE)
            /\ UNCHANGED << throttle_angle, throttle_kind, last_serial_lines, greeted >>
       ELSE IF msg.type # "state"
       THEN OnQuietFrame(msg)
       ELSE IF ~msg.fields
       THEN \* line 109: parts.items() raises AttributeError
            /\ Return(TRUE)
            /\ UNCHANGED << throttle_angle, throttle_kind, last_serial_lines, greeted >>
       ELSE IF partIdx <= Len(msg.parts)
       THEN LET info == msg.parts[partIdx] IN
            IF ~info.dict
            THEN \* info.get raises AttributeError
                 /\ Return(TRUE)
                 /\ UNCHANGED << throttle_angle, throttle_kind, last_serial_lines, greeted >>
            ELSE /\ throttle_angle' = PartThrottle(info, throttle_angle)
                 /\ throttle_kind' = PartKind(info, throttle_kind)
                 /\ partIdx' = partIdx + 1
                 /\ UNCHANGED << wsPc, inflight, last_serial_lines, errors,
                                 greeted >>
       ELSE /\ last_serial_lines' = msg.serial
            /\ Return(FALSE)
            /\ UNCHANGED << throttle_angle, throttle_kind, greeted >>
    /\ UNCHANGED << airspeed_ms, running, ws_connected, mainLocals, sock,
                    events >>

on_close ==
    /\ Alive /\ wsPc = "teardown"
    /\ ws_connected' = FALSE
    /\ wsPc' = "end"
    /\ UNCHANGED << airspeed_ms, throttle_angle, throttle_kind, running, last_serial_lines,
                    mainLocals, sock, inflight, partIdx, events, errors,
                    greeted >>

\* ---------------------------------------------------------- main thread
\* main, lines 226-229: one test of ws_connected in the wait loop.
Poll ==
    /\ pc = "poll"
    /\ pc' = IF ws_connected THEN "startup" ELSE "poll_sleep"
    /\ UNCHANGED << globals, polls, tick, qc, pitot_pressure, thrust, display,
                    outbox, sock, events, wsLocals >>

\* main, line 229: time.sleep(0.1), then the next of the ConnectPolls rounds.
PollSleep ==
    /\ pc = "poll_sleep"
    /\ polls' = polls + 1
    /\ pc' = IF polls + 1 < ConnectPolls THEN "poll" ELSE "startup"
    /\ UNCHANGED << globals, tick, qc, pitot_pressure, thrust, display,
                    outbox, sock, events, wsLocals >>

\* main without the test of line 231: sim_loop starts whatever the flag says.
StartupUnchecked ==
    /\ pc = "startup"
    /\ pc' = "sleep"
    /\ polls' = 0
    /\ UNCHANGED << globals, tick, qc, pitot_pressure, thrust, display,
                    outbox, sock, events, wsLocals >>

\* main, lines 231-238: sys.exit(1) when not connected, else sim_loop starts
\* (tick = 0).  The wait loop's counter is dead once sim_loop runs.
Startup ==
    /\ pc = "startup"
    /\ pc' = IF ws_connected THEN "sleep" ELSE "exit1"
    /\ polls' = IF ws_connected THEN 0 ELSE polls
    /\ UNCHANGED << globals, tick, qc, pitot_pressure, thrust, display,
                    outbox, sock, events, wsLocals >>

\* sim_loop, lines 153-154: while running: time.sleep(dt).
Sleep ==
    /\ pc = "sleep" /\ tick < MaxTick
    /\ pc' = IF running THEN "check" ELSE "done"
    /\ UNCHANGED << globals, polls, tick, qc, pitot_pressure, thrust, display,
                    outbox, sock, events, wsLocals >>

\* sim_loop without the test of line 156.
CheckSkipped ==
    /\ pc = "check"
    /\ pc' = "physics"
    /\ UNCHANGED << globals, polls, tick, qc, pitot_pressure, thrust, display,
                    outbox, sock, events, wsLocals >>

\* sim_loop with the test of line 156 inverted: if ws_connected: continue.
CheckInverted ==
    /\ pc = "check"
    /\ pc' = IF ws_connected THEN "skip" ELSE "physics"
    /\ UNCHANGED << globals, polls, tick, qc, pitot_pressure, thrust, display,
                    outbox, sock, events, wsLocals >>

\* sim_loop, line 156: if not ws_connected.
Check ==
    /\ pc = "check"
    /\ pc' = IF ws_connected THEN "physics" ELSE "skip"
    /\ UNCHANGED << globals, polls, tick, qc, pitot_pressure, thrust, display,
                    outbox, sock, events, wsLocals >>

\* sim_loop, line 157: continue, back to the head of the while loop.
Continue ==
    /\ pc = "skip"
    /\ pc' = "sleep"
    /\ UNCHANGED << globals, polls, tick, qc, pitot_pressure, thrust, display,
                    outbox, sock, events, wsLocals >>

\* A physics step that writes the clamped angle back to throttle_angle.
PhysicsClampsThrottle ==
    /\ pc = "physics"
    /\ airspeed_ms' = physics_step(airspeed_ms, Degrees)
    /\ throttle_angle' = Max(0, Min(throttle_angle, ServoMax))
    /\ qc' = compute_dynamic_pressure(airspeed_ms')
    /\ pitot_pressure' = STATIC_PRESSURE * 100 + qc'
    /\ pc' = "send_pitot"
    /\ UNCHANGED << throttle_kind, running, ws_connected, last_serial_lines,
                    polls, tick, thrust, display, outbox, sock, events, wsLocals >>

\* sim_loop, lines 160-164: physics_step(), then qc and pitot_pressure.  With
\* a throttle that is no number compute_thrust raises TypeError at line 68
\* (max(0, min(None, 180)) / 180), nothing in sim_loop or main catches it and
\* the main thread ends there.
Physics ==
    /\ pc = "physics"
    /\ IF throttle_kind # "none"
       THEN /\ airspeed_ms' = physics_step(airspeed_ms, Degrees)
            /\ qc' = compute_dynamic_pressure(airspeed_ms')
            /\ pitot_pressure' = STATIC_PRESSURE * 100 + qc'
            /\ pc' = "send_pitot"
       ELSE /\ pc' = "crashed"
            /\ UNCHANGED << airspeed_ms, qc, pitot_pressure >>
    /\ UNCHANGED << throttle_angle, throttle_kind, running, ws_connected, last_serial_lines,
                    polls, tick, thrust, display, outbox, sock, events, wsLocals >>

\* round(pitot_pressure) of line 173.  pitot_pressure is the exact pressure
\* floored to 0.01 Pa, and the exact pressure is never halfway between two
\* integers (49 v^2 = (2m + 1) * 2^15 * 3^8 * 5^9 has no solution), so round
\* goes up exactly when the floored fraction is at least 0.50.
RoundPressure(p) == (p + 50) \div 100

\* One ws.send call: what was asked to be sent, in which tick, and whether
\* the call returned (ok) or raised.
Cmd(c, part, v, ok) ==
    [cmd |-> c, partId |-> part, value |-> v, tick |-> tick, ok |-> ok]

\* The record of sends with one more call, cut to the latest LogWindow.
Logged(log, c) ==
    LET all == Append(log, c)
    IN  IF Len(all) <= LogWindow THEN all
        ELSE SubSeq(all, Len(all) - LogWindow + 1, Len(all))

\* ws.send raises unless the socket is open.
SendOk == sock = "open"

\* The end of a tick with the display test on the wrong side: every tick but
\* the twentieth prints.
AfterSendsInverted ==
    /\ tick' = tick + 1
    /\ pc' = IF (tick + 1) % DisplayEvery # 0 THEN "display" ELSE "sleep"

\* sim_loop, lines 187-189: tick += 1 and the test of the display period.
AfterSends ==
    /\ tick' = tick + 1
    /\ pc' = IF (tick + 1) % DisplayEvery = 0 THEN "display" ELSE "sleep"

\* sim_loop without the try/except: the exception of ws.send leaves sim_loop.
OnSendErrorUncaught ==
    /\ tick' = tick
    /\ pc' = "crashed"

\* sim_loop, lines 184-185: except Exception: pass; the loop body goes on
\* after the try block.
OnSendError == AfterSends

\* The sends in another order: get-state right after the pitot set-control.
SendPitotThenGet ==
    /\ pc = "send_pitot"
    /\ outbox' = Logged(outbox, Cmd("set-control", "pitot",
                                    RoundPressure(pitot_pressure), SendOk))
    /\ IF SendOk THEN pc' = "send_get" /\ tick' = tick ELSE OnSendError
    /\ UNCHANGED << globals, polls, qc, pitot_pressure, thrust, display, sock,
                    events, wsLocals >>

\* sim_loop, lines 169-174: the pitot set-control; on an exception the except
\* clause of line 184 ends the try block.
SendPitot ==
    /\ pc = "send_pitot"
    /\ outbox' = Logged(outbox, Cmd("set-control", "pitot",
                                    RoundPressure(pitot_pressure), SendOk))
    /\ IF SendOk THEN pc' = "send_static" /\ tick' = tick ELSE OnSendError
    /\ UNCHANGED << globals, polls, qc, pitot_pressure, thrust, display, sock,
                    events, wsLocals >>

\* The static set-control with the value copied from the pitot one.
SendStaticCopiesPitot ==
    /\ pc = "send_static"
    /\ outbox' = Logged(outbox, Cmd("set-control", "static",
                                    RoundPressure(pitot_pressure), SendOk))
    /\ IF SendOk THEN pc' = "send_get" /\ tick' = tick ELSE OnSendError
    /\ UNCHANGED << globals, polls, qc, pitot_pressure, thrust, display, sock,
                    events, wsLocals >>

\* sim_loop, lines 176-181: the static set-control.
SendStatic ==
    /\ pc = "send_static"
    /\ outbox' = Logged(outbox, Cmd("set-control", "static",
                                    STATIC_PRESSURE, SendOk))
    /\ IF SendOk THEN pc' = "send_get" /\ tick' = tick ELSE OnSendError
    /\ UNCHANGED << globals, polls, qc, pitot_pressure, thrust, display, sock,
                    events, wsLocals >>

\* sim_loop, line 183: the get-state poll, then lines 187-189.
SendGetState ==
    /\ pc = "send_get"
    /\ outbox' = Logged(outbox, Cmd("get-state", "", 0, SendOk))
    /\ IF SendOk THEN AfterSends ELSE OnSendError
    /\ UNCHANGED << globals, polls, qc, pitot_pressure, thrust, display, sock,
                    events, wsLocals >>

\* knots: m/s * 1.94384, in 1/100 kt, with the sign of ms and the fraction of
\* a unit cut off (1.94384 * 100 / SpeedScale
\* = 12149 / 202500000 = 12149 / (2592 * 625 * 125)).
knots(ms) ==
    LET k == ToInt(Quot(Times(Limbs(Abs(ms)), 12149), 2592, 625, 125))
    IN  IF ms < 0 THEN 0 - k ELSE k

\* sim_loop, lines 190-192: ias_kt, thrust and drag of the display block;
\* compute_thrust raises TypeError on a throttle that is no number.
DisplayThrust ==
    /\ pc = "display"
    /\ IF throttle_kind # "none"
       THEN /\ thrust' = compute_thrust(Degrees)
            /\ pc' = "display_print"
       ELSE /\ pc' = "crashed"
            /\ UNCHANGED thrust
    /\ UNCHANGED << globals, polls, tick, qc, pitot_pressure, display, outbox,
                    sock, events, wsLocals >>

\* sim_loop, lines 193-200: thr_pct, and the status line printed.
\* round(throttle_angle / 180 * 100) raises TypeError on a throttle that is
\* no number, OverflowError on an integer above every float and on an
\* infinity, ValueError on NaN; nothing catches it.
DisplayPrint ==
    /\ pc = "display_print"
    /\ IF throttle_kind = "number"
       THEN /\ display' = Append(display,
                    [tick |-> tick,
                     ias_kt |-> knots(airspeed_ms),
                     thr_pct |-> RoundHalfEven(throttle_angle * 100, ServoMax),
                     thrust |-> thrust,
                     drag |-> compute_drag(airspeed_ms),
                     qc |-> qc,
                     pitot |-> pitot_pressure])
            /\ pc' = "sleep"
       ELSE /\ pc' = "crashed"
            /\ UNCHANGED display
    /\ UNCHANGED << globals, polls, tick, qc, pitot_pressure, thrust, outbox,
                    sock, events, wsLocals >>

\* main without its global declaration: running = False sets a local.
KeyboardInterruptLocalFlag ==
    /\ pc \in LoopPcs \cup WaitPcs
    /\ IF pc \in LoopPcs
       THEN /\ sock' = IF sock = "open" THEN "closing" ELSE sock
            /\ pc' = "ws_close"
       ELSE /\ pc' = "crashed"
            /\ UNCHANGED sock
    /\ UNCHANGED << globals, polls, tick, qc, pitot_pressure, thrust,
                    display, outbox, events, wsLocals >>

\* A keyboard interrupt reaches the main thread.  Inside sim_loop it is caught
\* by main (lines 239-242): running = False, then ws.close() begins.  In the
\* connection wait nothing catches it and the process dies.
KeyboardInterrupt ==
    /\ pc \in LoopPcs \cup WaitPcs
    /\ IF pc \in LoopPcs
       THEN /\ running' = FALSE
            /\ sock' = IF sock = "open" THEN "closing" ELSE sock
            /\ pc' = "ws_close"
       ELSE /\ pc' = "crashed"
            /\ UNCHANGED << running, sock >>
    /\ UNCHANGED << airspeed_ms, throttle_angle, throttle_kind, ws_connected,
                    last_serial_lines, polls, tick, qc, pitot_pressure, thrust,
                    display, outbox, events, wsLocals >>

\* main, line 242: ws.close() returns with the socket closed; main returns.
WsClose ==
    /\ pc = "ws_close"
    /\ sock' = "closed"
    /\ pc' = "done"
    /\ UNCHANGED << globals, polls, tick, qc, pitot_pressure, thrust, display,
                    outbox, events, wsLocals >>

Next ==
    \/ Connect \/ PeerClose \/ on_open \/ Recv \/ RecvClosed \/ on_message
    \/ on_close
    \/ Poll \/ PollSleep \/ Startup
    \/ Sleep \/ Check \/ Continue \/ Physics \/ SendPitot \/ SendStatic \/ SendGetState
    \/ DisplayThrust \/ DisplayPrint
    \/ KeyboardInterrupt \/ WsClose

Spec == Init /\ [][Next]_vars

\* ------------------------------------------------------- physics bench
\* physics_step as a function of the airspeed: every start airspeed of
\* 0..MaxBenchSpeed m/s and the two speeds 8.24 and 8.25 m/s around the idle
\* equilibrium, the throttle held at zero, nothing else running.
BenchInit ==
    /\ airspeed_ms \in { k * SpeedScale : k \in 0..MaxBenchSpeed }
                        \cup { 824 * (SpeedScale \div 100),
                               825 * (SpeedScale \div 100) }
    /\ throttle_angle = 0
    /\ throttle_kind = "number"
    /\ running = TRUE
    /\ ws_connected = FALSE
    /\ last_serial_lines = << >>
    /\ greeted = FALSE
    /\ pc = "bench"
    /\ polls = 0
    /\ tick = 0
    /\ qc = 0
    /\ pitot_pressure = 0
    /\ thrust = 0
    /\ display = << >>
    /\ sock = "connecting"
    /\ wsPc = "connect"
    /\ inflight = NoFrame
    /\ partIdx = 1
    /\ events = 0
    /\ errors = 0
    /\ outbox = << >>

BenchStep ==
    /\ pc = "bench" /\ tick < MaxBenchSteps
    /\ airspeed_ms' = physics_step(airspeed_ms, throttle_angle)
    /\ tick' = tick + 1
    /\ UNCHANGED << throttle_angle, throttle_kind, running, ws_connected, last_serial_lines,
                    greeted, pc, polls, qc, pitot_pressure, thrust, display,
                    sock, wsPc, inflight, partIdx, events, errors, outbox >>

SpecBench == BenchInit /\ [][BenchStep]_vars

\* -------------------------------------------------------- thrust bench
\* compute_thrust as a function of the servo position: every position of
\* -MaxOutOfRange..ServoMax + MaxOutOfRange, one call.
ThrustInit ==
    /\ airspeed_ms = 0
    /\ throttle_angle \in (0 - MaxOutOfRange)..(ServoMax + MaxOutOfRange)
    /\ throttle_kind = "number"
    /\ running = TRUE
    /\ ws_connected = FALSE
    /\ last_serial_lines = << >>
    /\ greeted = FALSE
    /\ pc = "thrust"
    /\ polls = 0
    /\ tick = 0
    /\ qc = 0
    /\ pitot_pressure = 0
    /\ thrust = 0
    /\ display = << >>
    /\ sock = "connecting"
    /\ wsPc = "connect"
    /\ inflight = NoFrame
    /\ partIdx = 1
    /\ events = 0
    /\ errors = 0
    /\ outbox = << >>

ThrustCall ==
    /\ pc = "thrust"
    /\ thrust' = compute_thrust(throttle_angle)
    /\ pc' = "thrust_done"
    /\ UNCHANGED << globals, polls, tick, qc, pitot_pressure, display, outbox,
                    sock, events, wsLocals >>

SpecThrust == ThrustInit /\ [][ThrustCall]_vars

\* ---------------------------------------------------------- tick bench
\* One tick of sim_loop past its connected test, from every airspeed of
\* 0..MaxBenchSpeed m/s, at idle and at full throttle, with the socket open or
\* already closed by the peer.
TickInit ==
    /\ airspeed_ms \in { k * SpeedScale : k \in 0..MaxBenchSpeed }
    /\ throttle_angle \in {0, ServoMax}
    /\ throttle_kind = "number"
    /\ running = TRUE
    /\ ws_connected = TRUE
    /\ last_serial_lines = << >>
    /\ greeted = FALSE
    /\ pc = "physics"
    /\ polls = 0
    /\ tick = 0
    /\ qc = 0
    /\ pitot_pressure = 0
    /\ thrust = 0
    /\ display = << >>
    /\ sock \in {"open", "closed"}
    /\ wsPc = "recv"
    /\ inflight = NoFrame
    /\ partIdx = 1
    /\ events = 0
    /\ errors = 0
    /\ outbox = << >>

TickNext == Physics \/ SendPitot \/ SendStatic \/ SendGetState

SpecTick == TickInit /\ [][TickNext]_vars

\* ---------------------------------------------------------- climb bench
\* physics_step repeated at full throttle from rest, nothing else running.
ClimbInit ==
    /\ airspeed_ms = 0
    /\ throttle_angle = ServoMax
    /\ throttle_kind = "number"
    /\ running = TRUE
    /\ ws_connected = FALSE
    /\ last_serial_lines = << >>
    /\ greeted = FALSE
    /\ pc = "climb"
    /\ polls = 0
    /\ tick = 0
    /\ qc = 0
    /\ pitot_pressure = 0
    /\ thrust = 0
    /\ display = << >>
    /\ sock = "connecting"
    /\ wsPc = "connect"
    /\ inflight = NoFrame
    /\ partIdx = 1
    /\ events = 0
    /\ errors = 0
    /\ outbox = << >>

ClimbStep ==
    /\ pc = "climb" /\ tick < MaxClimbSteps
    /\ airspeed_ms' = physics_step(airspeed_ms, throttle_angle)
    /\ tick' = tick + 1
    /\ UNCHANGED << throttle_angle, throttle_kind, running, ws_connected, last_serial_lines,
                    greeted, pc, polls, qc, pitot_pressure, thrust, display,
                    sock, wsPc, inflight, partIdx, events, errors, outbox >>

SpecClimb == ClimbInit /\ [][ClimbStep]_vars

\* -------------------------------------------------------- handler bench
\* on_message on every frame, from every stored throttle of PriorAngles and at
\* rest or at 30 m/s, the main thread asleep in its loop.
PriorAngles == {-10, 0, 45, 90, 135, 180, 200}

HandlerInit ==
    /\ airspeed_ms \in {0, 30 * SpeedScale}
    /\ throttle_angle \in PriorAngles
    /\ throttle_kind \in Kinds
    /\ throttle_kind # "number" => throttle_angle = 0
    /\ running = TRUE
    /\ ws_connected = TRUE
    /\ last_serial_lines = << >>
    /\ greeted = FALSE
    /\ pc = "sleep"
    /\ polls = 0
    /\ tick = 0
    /\ qc = 0
    /\ pitot_pressure = 0
    /\ thrust = 0
    /\ display = << >>
    /\ sock = "open"
    /\ wsPc = "dispatch"
    /\ inflight \in Frames
    /\ partIdx = 1
    /\ events = 0
    /\ errors = 0
    /\ outbox = << >>

SpecHandler == HandlerInit /\ [][on_message]_vars

\* ----------------------------------------------------------- loop bench
\* sim_loop from its start on an open connection, for MaxLoopTick ticks, with
\* no inbound frames; the peer may close the connection at any moment.
LoopInit ==
    /\ airspeed_ms = 0
    /\ throttle_angle \in {0, ServoMax}
    /\ throttle_kind = "number"
    /\ running = TRUE
    /\ ws_connected = TRUE
    /\ last_serial_lines = << >>
    /\ greeted = FALSE
    /\ pc = "sleep"
    /\ polls = 0
    /\ tick = 0
    /\ qc = 0
    /\ pitot_pressure = 0
    /\ thrust = 0
    /\ display = << >>
    /\ sock = "open"
    /\ wsPc = "recv"
    /\ inflight = NoFrame
    /\ partIdx = 1
    /\ events = 0
    /\ errors = 0
    /\ outbox = << >>

\* sim_loop, lines 153-154, for the ticks of the bench.
LoopSleep ==
    /\ pc = "sleep" /\ tick < MaxLoopTick
    /\ pc' = IF running THEN "check" ELSE "done"
    /\ UNCHANGED << globals, polls, tick, qc, pitot_pressure, thrust, display,
                    outbox, sock, events, wsLocals >>

LoopNext ==
    \/ LoopSleep \/ Check \/ Continue \/ Physics
    \/ SendPitot \/ SendStatic \/ SendGetState
    \/ DisplayThrust \/ DisplayPrint
    \/ PeerClose \/ RecvClosed \/ on_close

SpecLoop == LoopInit /\ [][LoopNext]_vars

\* ================================================================ claims
\* Vocabulary of the claims.
Last(log) == log[Len(log)]
\* The value the global throttle_angle holds: a number of degrees, or a value
\* that is no number.
Throttle == << throttle_angle, throttle_kind >>

\* A step that calls ws.send, and whether that call returned or raised.
Sends == outbox' # outbox
SendFailed == Sends /\ ~Last(outbox').ok
SendDelivered == Sends /\ Last(outbox').ok

\* Place of a command in a tick: pitot, static, get-state.
Rank(c) == IF c.cmd = "get-state" THEN 3 ELSE IF c.partId = "static" THEN 2 ELSE 1

\* The connection state machine of the protocol bridge, read off the socket
\* and the flag: Connected is an open socket whose on_open has run.
ConnState ==
    IF sock = "open" THEN (IF ws_connected THEN "Connected" ELSE "Connecting")
    ELSE IF sock = "connecting" THEN "Connecting"
    ELSE IF sock = "closing" THEN "Closing"
    ELSE "Disconnected"

\* C1: in every reachable state, whatever the interleaving of physics steps
\* and inbound frames and whatever the throttle, airspeed is >= 0.
C1_AirspeedNonNegative == airspeed_ms >= 0

\* Two ticks done, a below-range throttle stored by a frame, airspeed positive.
C1_Witness ==
    /\ tick >= 2 /\ pc = "send_pitot"
    /\ throttle_angle = -10 /\ airspeed_ms > 0

\* C2: the stored throttle position is always within [0, 180]: an angle
\* outside the range is clamped when the receive path writes it.
C2_ThrottleInRange == throttle_angle \in 0..ServoMax

\* C3 as stated: after on_close, every later clock tick still runs the
\* physics step.
C3_PhysicsRunsAfterClose ==
    [][(wsPc = "end" /\ pc = "check" /\ pc' \in {"physics", "skip"})
            => pc' = "physics"]_vars

\* C3 as amended: once on_close has run the flag stays false, no clock
\* iteration passes the connected test any more (airspeed changes at most by
\* the one step that had already passed the test), and every ws.send raises.
C3_LoopIdlesAfterClose ==
    [][wsPc = "end"
            => /\ ~ws_connected /\ ~ws_connected'
               /\ (pc \in {"sleep", "check", "skip"} =>
                        pc' # "physics" /\ airspeed_ms' = airspeed_ms)
               /\ (pc \notin {"physics"} => airspeed_ms' = airspeed_ms)
               /\ ~SendDelivered]_vars

\* The loop spins disconnected after a session that ran ticks.
C3_Witness ==
    /\ wsPc = "end" /\ ~ws_connected
    /\ pc = "check" /\ tick >= 1 /\ airspeed_ms > 0

\* C4: within one tick the three sends are independent: when the tick's
\* sends are over, all three were attempted, whichever of them failed.
C4_AllSendsAttempted ==
    tick > 0 =>
        Cardinality({ i \in 1..Len(outbox) : outbox[i].tick = tick - 1 }) = 3

\* C5: the commands of a tick are issued after that tick's physics step (the
\* pitot value is the pressure of the airspeed that step stored), in the order
\* pitot, static, get-state, and no command of a later tick precedes one of an
\* earlier tick.
C5_IssueOrder ==
    /\ \A i \in 1..(Len(outbox) - 1) :
          LET a == outbox[i]
              b == outbox[i + 1]
          IN  IF a.tick = b.tick
              THEN a.ok /\ Rank(b) = Rank(a) + 1
              ELSE b.tick > a.tick /\ Rank(b) = 1
    /\ (Len(outbox) > 0 /\ Len(outbox) < LogWindow) => Rank(outbox[1]) = 1
    /\ pc \in LoopPcs =>
          LET stepped == IF pc \in {"send_pitot", "send_static", "send_get"}
                         THEN tick ELSE tick - 1
          IN  \A i \in 1..Len(outbox) :
                 /\ outbox[i].tick <= stepped
                 /\ (outbox[i].tick = stepped /\ Rank(outbox[i]) = 1) =>
                        outbox[i].value = RoundPressure(
                            STATIC_PRESSURE * 100
                                + compute_dynamic_pressure(airspeed_ms))

\* Two full ticks of delivered commands in the record.
C5_Witness ==
    /\ Len(outbox) = 6
    /\ \A i \in 1..6 : outbox[i].ok
    /\ outbox[1].tick + 1 = outbox[6].tick
    /\ outbox[6].value # outbox[1].value

\* C6 as stated: at zero throttle every step strictly decreases a positive
\* airspeed, and airspeed 0 is a fixed point.
C6_DecaysToRest ==
    [][throttle_angle = 0
            => /\ (airspeed_ms > 0 => airspeed_ms' < airspeed_ms)
               /\ (airspeed_ms = 0 => airspeed_ms' = 0)]_vars

\* C6 as amended: at zero throttle the thrust is the idle thrust, so a step
\* lowers airspeed only above 8.24 m/s, raises it only below 8.25 m/s, and
\* always leaves it positive: a step from 0 does not stay at 0.
C6_IdleEquilibrium ==
    [][throttle_angle = 0
            => /\ airspeed_ms' > 0
               /\ (airspeed_ms' < airspeed_ms =>
                        airspeed_ms >= 824 * (SpeedScale \div 100))
               /\ (airspeed_ms' > airspeed_ms =>
                        airspeed_ms < 825 * (SpeedScale \div 100))]_vars

\* Started at rest, the bench has climbed, and is still below 1 m/s.
C6_Witness ==
    /\ pc = "bench" /\ tick = MaxBenchSteps
    /\ airspeed_ms > 0 /\ airspeed_ms < SpeedScale

\* C7 as stated: the simulation loop starts only after a ready frame.
C7_StartsAfterReady == pc \in LoopPcs => greeted

\* C7 as amended: the loop starts only after on_open has run; the wait is at
\* most ConnectPolls polls; and when the flag is false at the end of the wait
\* the process exits with code 1 without a physics step or a send.
C7_StartsAfterOpen ==
    /\ pc \in LoopPcs \cup {"ws_close", "done"} =>
            wsPc \notin {"connect", "opened"}
    /\ polls <= ConnectPolls
    /\ pc = "exit1" =>
            /\ ~ws_connected
            /\ polls = ConnectPolls \/ wsPc = "end"
            /\ tick = 0 /\ airspeed_ms = 0 /\ outbox = << >>

\* The wait ran out while the socket was still connecting.
C7_Witness == pc = "exit1" /\ polls = ConnectPolls /\ wsPc = "connect"

\* C8: a handler step on a frame json.loads rejects changes neither airspeed
\* nor throttle, lets no exception out, and leaves the read loop and the main
\* thread where they were.
C8_MalformedIsNoOp ==
    [][(wsPc = "dispatch" /\ ~inflight.json /\ wsPc' # wsPc)
            => /\ airspeed_ms' = airspeed_ms
               /\ Throttle' = Throttle
               /\ errors' = errors
               /\ wsPc' = "recv"
               /\ pc' = pc /\ running' = running]_vars

\* C9: a ws.send that raises, whichever of the three, keeps the airspeed of
\* the tick, advances tick by one, runs the display test and goes on.
C9_SendFailureSwallowed ==
    [][SendFailed
            => /\ airspeed_ms' = airspeed_ms
               /\ tick' = tick + 1
               /\ pc' = IF tick' % DisplayEvery = 0 THEN "display" ELSE "sleep"
               /\ running' = running]_vars

\* The static send of the twentieth tick raised and the display is due.
C9_Witness ==
    /\ Len(outbox) > 0 /\ ~Last(outbox).ok /\ Rank(Last(outbox)) = 2
    /\ pc = "display" /\ airspeed_ms > 0

\* C10 as stated: outside Connected no command is transmitted and no inbound
\* frame changes the throttle.
C10_OnlyConnectedHasEffect ==
    [][ConnState # "Connected"
            => Throttle' = Throttle /\ ~SendDelivered]_vars

\* C10 as amended: a command is transmitted only while the socket is open and
\* the flag is set, and a frame changes the throttle only while the flag is
\* set, that is between on_open and on_close.
C10_EffectOnlyWhileFlagSet ==
    [][/\ SendDelivered => ws_connected /\ sock = "open"
       /\ Throttle' # Throttle => ws_connected]_vars

\* The connection closed between the connected test and the send: the send
\* raised while the flag was still set.
C10_Witness ==
    /\ Len(outbox) > 0 /\ ~Last(outbox).ok /\ Rank(Last(outbox)) = 1
    /\ ws_connected /\ sock = "closed" /\ pc = "sleep"

\* C11 as stated: a clock iteration whose test finds the connection in
\* another state than Connected skips the tick's work.
C11_SkippedWhenNotConnected ==
    [][(pc = "check" /\ ConnState # "Connected" /\ pc' # pc)
            => pc' \in {"skip", "ws_close"}]_vars

\* C11 as amended: a clock iteration skips the tick's work exactly when it
\* finds the connection flag false: from the test to the next sleep airspeed
\* and the tick count are unchanged, no command is issued, no status line is
\* printed, and the loop goes back to sleep a full period; an iteration that
\* finds the flag set goes on to the physics step, whatever the socket's
\* state.
C11_SkippedIteration ==
    [][/\ (pc = "check" /\ ~ws_connected /\ pc' # pc) =>
              pc' \in {"skip", "ws_close"}
       /\ (pc = "check" /\ ws_connected /\ pc' # pc) =>
              pc' \in {"physics", "ws_close"}
       /\ pc = "skip" =>
              /\ pc' \in {"skip", "sleep", "ws_close"}
              /\ airspeed_ms' = airspeed_ms /\ tick' = tick
              /\ outbox' = outbox /\ display' = display
       /\ (pc = "check" /\ ~ws_connected) =>
              /\ airspeed_ms' = airspeed_ms /\ tick' = tick
              /\ outbox' = outbox /\ display' = display]_vars

\* An iteration is being skipped after a session that ran ticks.
C11_Witness ==
    /\ pc = "skip" /\ ~ws_connected /\ sock = "closed"
    /\ tick >= 1 /\ Len(outbox) >= 3

\* The throttle values a run can store: the initial one and whatever a part of
\* a state snapshot writes.
StoredAngles ==
    {0} \cup UNION { { PartThrottle(f.parts[i], 0) : i \in 1..Len(f.parts) } :
                        f \in StateFrames }

\* C12: every status line printed shows a throttle percentage and a thrust
\* derived from one and the same throttle value, even when the receive thread
\* applies a state snapshot while the line is being put together.
C12_TelemetryConsistent ==
    \A i \in 1..Len(display) :
        \E a \in StoredAngles :
            /\ display[i].thr_pct = RoundHalfEven(a * 100, ServoMax)
            /\ display[i].thrust = compute_thrust(a)

\* C13: once main has caught the keyboard interrupt that ended sim_loop, no
\* physics step and no ws.send happens any more, whatever the tick was doing
\* when it was interrupted; running is false, and main returns with the
\* connection closed.
C13_NoTickAfterShutdown ==
    [][(pc \in {"ws_close", "done"})
            => /\ ~running /\ ~running'
               /\ pc' \in {"ws_close", "done"}
               /\ airspeed_ms' = airspeed_ms /\ tick' = tick
               /\ outbox' = outbox /\ display' = display
               /\ (pc' = "done" => sock' = "closed")]_vars

\* The interrupt came between the pitot and the static send of a tick: main
\* has returned and the rest of the tick's sends never happened.
C13_Witness ==
    /\ pc = "done" /\ ~running /\ sock = "closed"
    /\ Len(outbox) >= 4 /\ Rank(Last(outbox)) = 1 /\ Last(outbox).ok

\* C14: airspeed is written by the clock loop's physics step only and the
\* throttle by on_message handling a state snapshot only: no step of the
\* receive thread changes airspeed and no step of the main thread changes the
\* throttle.
C14_DisjointWriters ==
    [][/\ airspeed_ms' # airspeed_ms => pc = "physics" /\ pc' = "send_pitot"
       /\ Throttle' # Throttle =>
              wsPc = "dispatch" /\ inflight.type = "state"
       /\ pc' # pc => Throttle' = Throttle
       /\ (wsPc' # wsPc \/ partIdx' # partIdx) =>
              airspeed_ms' = airspeed_ms]_vars

\* Both writers have written: the handler is in the middle of a snapshot
\* whose first servo it applied, the loop has just stepped the physics.
C14_Witness ==
    /\ wsPc = "dispatch" /\ partIdx = 2 /\ throttle_angle = -10
    /\ pc = "send_pitot" /\ tick >= 1 /\ airspeed_ms > 0
    /\ last_serial_lines = << >>

\* C15: compute_thrust returns the idle thrust (50 N) for every position
\* below 0, the maximum thrust (2500 N) for every position above 180, and
\* between them the linear interpolation 50 + position / 180 * 2450
\* (thrust in 1/180 N).
C15_ThrustClamped ==
    pc = "thrust_done" =>
        /\ throttle_angle < 0 => thrust = ServoMax * IDLE_THRUST
        /\ throttle_angle > ServoMax => thrust = ServoMax * MAX_THRUST
        /\ throttle_angle \in 0..ServoMax =>
               /\ thrust - ServoMax * IDLE_THRUST
                      = throttle_angle * (MAX_THRUST - IDLE_THRUST)
               /\ thrust >= ServoMax * IDLE_THRUST
               /\ thrust <= ServoMax * MAX_THRUST

\* The thrust of the highest position above the range has been computed.
C15_Witness ==
    /\ pc = "thrust_done"
    /\ throttle_angle = ServoMax + MaxOutOfRange
    /\ thrust = ServoMax * MAX_THRUST

\* C16: in a tick, from any airspeed, the dynamic pressure is >= 0, the pitot
\* value sent is the rounded pitot pressure and is >= the static value sent,
\* and the static value sent is the ambient pressure 101325 Pa.
C16_Pressures ==
    /\ qc >= 0
    /\ pc # "physics" =>
           /\ qc = compute_dynamic_pressure(airspeed_ms)
           /\ pitot_pressure >= STATIC_PRESSURE * 100
    /\ \A i \in 1..Len(outbox) :
           /\ Rank(outbox[i]) = 1 =>
                  /\ outbox[i].value = RoundPressure(pitot_pressure)
                  /\ outbox[i].value >= STATIC_PRESSURE
           /\ Rank(outbox[i]) = 2 => outbox[i].value = STATIC_PRESSURE
           /\ \A j \in 1..Len(outbox) :
                  (Rank(outbox[i]) = 1 /\ Rank(outbox[j]) = 2) =>
                      outbox[i].value >= outbox[j].value

\* A whole tick at about 58 m/s: the pitot value sent is more than 2000 Pa
\* above the static value sent.
C16_Witness ==
    /\ Len(outbox) = 3 /\ pc = "sleep"
    /\ outbox[1].value >= outbox[2].value + 2000
    /\ outbox[2].value = STATIC_PRESSURE /\ outbox[3].ok

\* The terminal velocity at full throttle, sqrt(2500 / 0.735) = 58.32 m/s,
\* with the tolerance of the claim: 58.31 and 58.33 m/s on the airspeed grid.
TerminalLow == 5831 * (SpeedScale \div 100)
TerminalHigh == 5833 * (SpeedScale \div 100)

\* C17: at throttle 180 from rest, airspeed increases with every step while it
\* is below the terminal velocity, never exceeds it (by more than the
\* tolerance, so by less than a single step's change), is within the tolerance
\* of it after MaxClimbSteps steps, and once within the tolerance stays there.
C17_TerminalVelocity ==
    /\ [][/\ airspeed_ms < TerminalLow => airspeed_ms' > airspeed_ms
          /\ airspeed_ms >= TerminalLow => airspeed_ms' >= TerminalLow]_vars
    /\ [](airspeed_ms <= TerminalHigh)
    /\ [](tick >= MaxClimbSteps => airspeed_ms >= TerminalLow)

\* The climb has arrived within the tolerance of the terminal velocity.
C17_Witness ==
    /\ pc = "climb" /\ throttle_angle = ServoMax /\ tick >= MaxClimbSteps
    /\ airspeed_ms >= TerminalLow /\ airspeed_ms <= TerminalHigh

\* The servo-typed parts among the first n parts of a snapshot, and the value
\* the last of them reports as its angle (0 when it carries no angle field).
ServoIdx(parts, n) ==
    { i \in 1..n : parts[i].dict /\ parts[i].type = "wokwi-servo" }
LastServoAngle(parts, n) ==
    LET last == CHOOSE i \in ServoIdx(parts, n) :
                    \A j \in ServoIdx(parts, n) : j <= i
    IN  IF parts[last].has
        THEN << parts[last].angle, parts[last].kind >>
        ELSE << 0, "number" >>
AllObjects(parts) == \A i \in 1..Len(parts) : parts[i].dict

\* C18: while and after on_message handles a state snapshot whose parts are a
\* mapping of attribute objects, the throttle is the angle of the last servo-typed part
\* handled (0 when it has no angle field); a part of another type leaves it
\* unchanged, a snapshot without servo-typed parts leaves it unchanged, and
\* the handler goes through the whole snapshot.
C18_LastServoWins ==
    /\ []((wsPc = "dispatch" /\ inflight.type = "state"
              /\ ServoIdx(inflight.parts, partIdx - 1) # {})
            => Throttle = LastServoAngle(inflight.parts, partIdx - 1))
    /\ [][(wsPc = "dispatch" /\ inflight.type = "state")
            => /\ (partIdx' = partIdx + 1
                      /\ inflight.parts[partIdx].type # "wokwi-servo") =>
                      Throttle' = Throttle
               /\ ServoIdx(inflight.parts, Len(inflight.parts)) = {} =>
                      Throttle' = Throttle
               /\ (wsPc' = "recv" /\ inflight.fields
                      /\ AllObjects(inflight.parts)) =>
                      /\ partIdx = Len(inflight.parts) + 1
                      /\ Throttle' = Throttle
                      /\ last_serial_lines' = inflight.serial]_vars

\* A snapshot with two servos has been gone through: the second one's angle
\* is the throttle.
C18_Witness ==
    /\ wsPc = "dispatch" /\ inflight = State(<< Servo(-10), Servo(200) >>, << >>)
    /\ partIdx = 3 /\ throttle_angle = 200 /\ airspeed_ms > 0

\* C19: on_message on a ready, serial ("AT:" lines included), error or
\* unrecognized frame leaves airspeed and throttle unchanged, returns to the
\* read loop (by return or by an exception the library catches) and leaves
\* the main thread running where it was;
\* a step that changes the throttle is a step on a state frame.
C19_QuietFrames ==
    [][/\ (wsPc = "dispatch" /\ inflight.json /\ inflight.obj
              /\ inflight.type # "state")
            => /\ airspeed_ms' = airspeed_ms
               /\ Throttle' = Throttle
               /\ running' = running /\ pc' = pc
               /\ wsPc' = "recv"
       /\ Throttle' # Throttle => inflight.type = "state"]_vars

\* A ready frame has been handled at 30 m/s and full throttle.
C19_Witness ==
    /\ wsPc = "recv" /\ greeted /\ errors = 0
    /\ airspeed_ms > 0 /\ throttle_angle = ServoMax /\ running

\* C20: a status line is printed exactly when the count of executed ticks
\* reaches a positive multiple of 20: the i-th line printed belongs to tick
\* 20 * i and none is missing; the count moves only at the end of an executed
\* tick, by one, whether its sends returned or raised, and a skipped iteration
\* leaves it alone.
C20_TelemetryEvery20 ==
    /\ [](\A i \in 1..Len(display) : display[i].tick = i * DisplayEvery)
    /\ [](Len(display) =
             (tick \div DisplayEvery)
                 - (IF pc \in {"display", "display_print"} THEN 1 ELSE 0))
    /\ [][/\ display' # display =>
                 pc = "display_print" /\ tick > 0 /\ tick % DisplayEvery = 0
          /\ tick' # tick =>
                 /\ tick' = tick + 1
                 /\ pc \in {"send_pitot", "send_static", "send_get"}
          /\ (pc \in {"send_pitot", "send_static", "send_get"}
                 /\ pc' \in {"sleep", "display"}) => tick' = tick + 1
          /\ (pc # "display" /\ pc' = "display")
                 <=> (tick' # tick /\ tick' % DisplayEvery = 0)
          /\ pc \in {"check", "skip"} /\ ~ws_connected => tick' = tick]_vars

\* Two status lines printed, the second one at the end of a tick whose sends
\* raised, and the loop skipping iterations since.
C20_Witness ==
    /\ Len(display) = 2 /\ display[2].tick = 2 * DisplayEvery
    /\ tick = 2 * DisplayEvery /\ ~Last(outbox).ok
    /\ pc = "skip" /\ ~ws_connected

====
